---- MODULE Spec2Model ----
(***************************************************************************)
(* Model of the university records repository: the schema of models.py,    *)
(* the DatabaseSeeder of seed.py and the analytical queries of             *)
(* my_select.py, over a relational store with the schema's constraints.    *)
(***************************************************************************)
EXTENDS Integers, Sequences, FiniteSets, TLC

VARIABLES
    db,         \* committed contents of the five tables
    work,       \* the session's view: db plus the open transaction's changes
    seq,        \* last value handed out by each table's id sequence
    cfg,        \* the seeder's configuration (DatabaseSeeder.__init__ arguments)
    _groups,    \* DatabaseSeeder._groups
    _teachers,  \* DatabaseSeeder._teachers
    _subjects,  \* DatabaseSeeder._subjects
    _students,  \* DatabaseSeeder._students
    _grades,    \* DatabaseSeeder._grades
    seen,       \* emails the seeder's Faker().unique proxy has emitted
    pc,         \* position inside populate(), "idle" outside it
    pi,         \* number of tables the purge loop has deleted
    outcome,    \* how the last operation ended
    pre,        \* committed contents when the last populate() or statement began
    calls,      \* populate() calls made on the current seeder instance
    steps,      \* populate() calls, direct statements and queries made in this behaviour
    last,       \* the last direct storage statement or query and its argument
    result      \* what the last query returned

vars == <<db, work, seq, cfg, _groups, _teachers, _subjects, _students, _grades,
          seen, pc, pi, outcome, pre, calls, steps, last, result>>

seederVars == <<cfg, _groups, _teachers, _subjects, _students, _grades, seen, calls>>

----------------------------------------------------------------------------
(* Bounds of the model *)

MaxGroups == 2
MaxTeachers == 1
MaxSubjects == 2
MaxStudents == 1
MaxGrades == 1
MaxEmails == 4
MaxSteps == 2
MaxDrawn == 2
QStudents == 6
MaxQueries == 1

(* Program constants *)

GradeLow == 0
GradeHigh == 100
TopLimit == 5

NoId == 0
NULL == -1

----------------------------------------------------------------------------
(* Schema: models.py *)

Tables == {"groups", "teachers", "subjects", "students", "grades"}

EmptyDB == [t \in Tables |-> {}]

\* Groups: name unique
GroupsViolation(st, row) ==
    IF \E g \in st.groups : g.name = row.name THEN "UniqueViolation" ELSE "none"

\* Teachers: email unique (name is indexed, not unique)
TeachersViolation(st, row) ==
    IF \E t \in st.teachers : t.email = row.email THEN "UniqueViolation" ELSE "none"

\* Subjects: name unique, teacher_id NOT NULL REFERENCES teachers(id)
SubjectsViolation(st, row) ==
    IF row.teacher_id = NULL THEN "NotNullViolation"
    ELSE IF \E s \in st.subjects : s.name = row.name THEN "UniqueViolation"
    ELSE IF ~ \E t \in st.teachers : t.id = row.teacher_id THEN "ForeignKeyViolation"
    ELSE "none"

\* Students: email unique, group_id NOT NULL REFERENCES groups(id)
StudentsViolation(st, row) ==
    IF row.group_id = NULL THEN "NotNullViolation"
    ELSE IF \E s \in st.students : s.email = row.email THEN "UniqueViolation"
    ELSE IF ~ \E g \in st.groups : g.id = row.group_id THEN "ForeignKeyViolation"
    ELSE "none"

\* Mutation: the check constraint without its upper limit
check_grade_value_no_upper(v) == v >= GradeLow

\* The check constraint "value >= 0 AND value <= 100"
check_grade_value(v) == v >= GradeLow /\ v <= GradeHigh

\* Mutation: grades without their foreign keys
GradesViolation_no_fk(st, row) ==
    IF row.student_id = NULL \/ row.subject_id = NULL THEN "NotNullViolation"
    ELSE IF ~ check_grade_value(row.value) THEN "CheckViolation"
    ELSE "none"

\* Grades: check_grade_value; student_id, subject_id NOT NULL with foreign keys
GradesViolation(st, row) ==
    IF row.student_id = NULL \/ row.subject_id = NULL THEN "NotNullViolation"
    ELSE IF ~ check_grade_value(row.value) THEN "CheckViolation"
    ELSE IF ~ \E s \in st.students : s.id = row.student_id THEN "ForeignKeyViolation"
    ELSE IF ~ \E s \in st.subjects : s.id = row.subject_id THEN "ForeignKeyViolation"
    ELSE "none"

Violation(st, t, row) ==
    CASE t = "groups"   -> GroupsViolation(st, row)
      [] t = "teachers" -> TeachersViolation(st, row)
      [] t = "subjects" -> SubjectsViolation(st, row)
      [] t = "students" -> StudentsViolation(st, row)
      [] t = "grades"   -> GradesViolation(st, row)

\* INSERT of one row: the id column takes the sequence's next value
WithId(row, id) == [row EXCEPT !.id = id]

InsertRow(st, t, row) == [st EXCEPT ![t] = @ \cup {row}]

\* Deletes with the foreign keys' ON DELETE CASCADE
DeleteGrades(st, S) == [st EXCEPT !.grades = @ \ S]

\* Mutation: students.id deleted without the cascade to grades
DeleteStudents_no_cascade(st, S) == [st EXCEPT !.students = @ \ S]

DeleteStudents(st, S) ==
    LET ids == {s.id : s \in S}
        gs == {g \in st.grades : g.student_id \in ids}
    IN  [DeleteGrades(st, gs) EXCEPT !.students = @ \ S]

DeleteSubjects(st, S) ==
    LET ids == {s.id : s \in S}
        gs == {g \in st.grades : g.subject_id \in ids}
    IN  [DeleteGrades(st, gs) EXCEPT !.subjects = @ \ S]

DeleteTeachers(st, S) ==
    LET ids == {t.id : t \in S}
        ss == {s \in st.subjects : s.teacher_id \in ids}
    IN  [DeleteSubjects(st, ss) EXCEPT !.teachers = @ \ S]

DeleteGroups(st, S) ==
    LET ids == {g.id : g \in S}
        ss == {s \in st.students : s.group_id \in ids}
    IN  [DeleteStudents(st, ss) EXCEPT !.groups = @ \ S]

DeleteFrom(st, t, S) ==
    CASE t = "groups"   -> DeleteGroups(st, S)
      [] t = "teachers" -> DeleteTeachers(st, S)
      [] t = "subjects" -> DeleteSubjects(st, S)
      [] t = "students" -> DeleteStudents(st, S)
      [] t = "grades"   -> DeleteGrades(st, S)

----------------------------------------------------------------------------
(* The session: flush of pending objects, in list order *)

\* [st, seq, rows, err]: rows as inserted (with their ids) up to the first
\* violation; a failed INSERT has consumed its sequence value
RECURSIVE Flush(_, _, _, _, _)
Flush(st, q, t, rows, done) ==
    IF rows = <<>> THEN [st |-> st, seq |-> q, rows |-> done, err |-> "none"]
    ELSE LET row == WithId(Head(rows), q + 1)
             v == Violation(st, t, row)
         IN  IF v # "none"
             THEN [st |-> st, seq |-> q + 1, rows |-> done \o rows, err |-> v]
             ELSE Flush(InsertRow(st, t, row), q + 1, t, Tail(rows), Append(done, row))

----------------------------------------------------------------------------
(* Random sources of seed.py: the random module and Faker *)

\* random.randint(a, b): any integer of a..b; ValueError when the range is empty
randint(r) == r[1] .. r[2]

\* DatabaseSeeder.ACADEMIC_SUBJECTS
ACADEMIC_SUBJECTS ==
    <<"Mathematics", "Physics", "Chemistry", "Biology", "History", "Geography",
      "Literature", "Computer Science", "Philosophy", "Economics">>

PoolSize == Len(ACADEMIC_SUBJECTS)

InjectiveSeqs(S, k) ==
    {f \in [1..k -> S] : \A i, j \in 1..k : i # j => f[i] # f[j]}

\* random.sample(population, k), k <= len(population): k distinct positions,
\* in selection order; the draws explored fall among the first MaxDrawn
\* positions (the first k when k is more)
sample(population, k) ==
    LET most == IF k < MaxDrawn THEN MaxDrawn ELSE k
        positions == 1..(IF Len(population) < most THEN Len(population) ELSE most)
    IN  {[i \in 1..k |-> population[f[i]]] : f \in InjectiveSeqs(positions, k)}

\* Faker().name(): not unique
FakeNames == {"Ann"}

\* Faker().email() draws from this pool
FakeEmails == 1..MaxEmails

\* Mutation: Faker().email() without the unique proxy
plain_emails(seenSet, k) == [1..k -> FakeEmails]

\* Faker().unique.email(), k times: never a value of `seen`, never one twice
unique_emails(seenSet, k) == InjectiveSeqs(FakeEmails \ seenSet, k)

\* random.randint(1, 100) of _generate_grades, sampled at its two ends
grade_value == {1, 100}

\* random.randint(0, 365) of _generate_grades, sampled at its upper end;
\* created_at is the day number relative to the day of generation
days_ago == {365}

----------------------------------------------------------------------------
(* DatabaseSeeder *)

Ranges(lo, hi) == (lo..hi) \X (lo..hi)

AllConfigs ==
    [groups_count : 0..MaxGroups,
     teachers_range : Ranges(0, MaxTeachers),
     subjects_range : Ranges(0, MaxSubjects) \cup {<<PoolSize + 1, PoolSize + 1>>},
     students_range : Ranges(0, MaxStudents),
     grades_range : Ranges(0, MaxGrades)]

\* The configuration the others vary: every list non-empty
BaseConfig ==
    [groups_count |-> 1, teachers_range |-> <<1, 1>>, subjects_range |-> <<1, 1>>,
     students_range |-> <<1, 1>>, grades_range |-> <<1, 1>>]

Deviations(c) == {f \in DOMAIN c : c[f] # BaseConfig[f]}

\* The configurations explored: BaseConfig with one field changed; two or
\* more subjects are drawn for no students; an empty students or grades range
\* behind an empty list
Configs ==
    {c \in AllConfigs :
        \/ /\ Cardinality(Deviations(c)) <= 1
           /\ c.subjects_range[2] <= 1 \/ c.subjects_range[1] > PoolSize
        \/ /\ Deviations(c) = {"subjects_range", "students_range"}
           /\ c.subjects_range[2] > 1
           /\ c.students_range = <<0, 0>>
        \/ /\ Deviations(c) = {"students_range", "grades_range"}
           /\ c.students_range = <<0, 0>>
           /\ c.grades_range[1] > c.grades_range[2]
        \/ /\ Deviations(c) = {"teachers_range", "students_range"}
           /\ c.teachers_range = <<0, 0>>
           /\ c.students_range[1] > c.students_range[2]}

SeqToSet(s) == {s[i] : i \in 1..Len(s)}

\* DatabaseSeeder.__init__
Construct ==
    /\ pc = "idle"
    /\ calls > 0
    /\ _groups' = <<>>
    /\ _teachers' = <<>>
    /\ _subjects' = <<>>
    /\ _students' = <<>>
    /\ _grades' = <<>>
    /\ seen' = {}
    /\ calls' = 0
    /\ UNCHANGED <<db, work, seq, cfg, pc, pi, outcome, pre, steps, last, result>>

\* populate(), up to the call of _purge_existing_data
Populate ==
    /\ pc = "idle"
    /\ steps < MaxSteps
    /\ pc' = "purge"
    /\ pi' = 0
    /\ pre' = db
    /\ outcome' = "running"
    /\ calls' = calls + 1
    /\ steps' = steps + 1
    /\ last' = <<"populate">>
    /\ UNCHANGED <<db, work, seq, cfg, _groups, _teachers, _subjects, _students,
                   _grades, seen, result>>

\* populate()'s except clause: session.rollback(), then re-raise
Raise(kind) ==
    /\ work' = db
    /\ pc' = "idle"
    /\ outcome' = kind
    /\ UNCHANGED <<db, pre, steps, last, result>>

\* Mutation: the loop from the parents to the children
PurgeOrder_parents_first == <<"groups", "teachers", "subjects", "students", "grades">>

\* Mutation: the loop without Teachers
PurgeOrder_no_teachers == <<"grades", "students", "subjects", "groups">>

\* _purge_existing_data: the deleting loop's order
PurgeOrder == <<"grades", "students", "subjects", "teachers", "groups">>

\* _purge_existing_data: one session.query(model).delete() of the loop
PurgeDelete ==
    /\ pc = "purge"
    /\ pi < Len(PurgeOrder)
    /\ LET t == PurgeOrder[pi + 1]
       IN  work' = DeleteFrom(work, t, work[t])
    /\ pi' = pi + 1
    /\ UNCHANGED <<db, seq, pc, outcome, pre, steps, last, result>>
    /\ UNCHANGED seederVars

\* _purge_existing_data: session.commit() after the loop
PurgeCommit ==
    /\ pc = "purge"
    /\ pi = Len(PurgeOrder)
    /\ db' = work
    /\ pc' = "groups"
    /\ UNCHANGED <<work, seq, pi, outcome, pre, steps, last, result>>
    /\ UNCHANGED seederVars

\* _purge_existing_data: a statement or the commit raises; the except clause
\* rolls back and re-raises into populate()'s except clause
PurgeFail ==
    /\ pc = "purge"
    /\ Raise("OperationalError")
    /\ UNCHANGED <<seq, pi>>
    /\ UNCHANGED seederVars

\* A generation step after its list is built: session.add_all and
\* session.flush, which the storage may refuse when there is a row to send;
\* `list` is the seeder's list after the step, its objects carrying the ids
\* the flush gave them
FlushStep(t, rows, next, list) ==
    \E dbfail \in (IF rows = <<>> THEN {FALSE} ELSE BOOLEAN) :
        IF dbfail
        THEN /\ list = rows
             /\ Raise("OperationalError")
             /\ UNCHANGED seq
        ELSE LET f == Flush(work, seq[t], t, rows, <<>>)
             IN  /\ list = f.rows
                 /\ seq' = [seq EXCEPT ![t] = f.seq]
                 /\ IF f.err # "none"
                    THEN Raise(f.err)
                    ELSE /\ work' = f.st
                         /\ pc' = next
                         /\ UNCHANGED <<db, outcome, pre, steps, last, result>>

\* Mutation: range(1, groups_count + 2)
GenerateGroups_one_more ==
    /\ pc = "groups"
    /\ LET rows == [idx \in 1..(cfg.groups_count + 1) |->
                      [id |-> NoId, name |-> <<"Group", idx>>]]
       IN  FlushStep("groups", rows, "teachers", _groups')
    /\ UNCHANGED <<cfg, _teachers, _subjects, _students, _grades, seen, calls, pi>>

\* _generate_groups
GenerateGroups ==
    /\ pc = "groups"
    /\ LET rows == [idx \in 1..cfg.groups_count |->
                      [id |-> NoId, name |-> <<"Group", idx>>]]
       IN  FlushStep("groups", rows, "teachers", _groups')
    /\ UNCHANGED <<cfg, _teachers, _subjects, _students, _grades, seen, calls, pi>>

\* _generate_teachers
GenerateTeachers ==
    /\ pc = "teachers"
    /\ IF randint(cfg.teachers_range) = {}
       THEN /\ Raise("ValueError")
            /\ UNCHANGED <<seq, _teachers, seen>>
       ELSE \E count \in randint(cfg.teachers_range) :
            IF unique_emails(seen, count) = {}
            THEN /\ Raise("UniquenessException")
                 /\ seen' = FakeEmails
                 /\ UNCHANGED <<seq, _teachers>>
            ELSE \E names \in [1..count -> FakeNames],
                    emails \in unique_emails(seen, count) :
                 LET rows == [i \in 1..count |->
                               [id |-> NoId, name |-> names[i], email |-> emails[i]]]
                 IN  /\ seen' = seen \cup SeqToSet(emails)
                     /\ FlushStep("teachers", rows, "subjects", _teachers')
    /\ UNCHANGED <<cfg, _groups, _subjects, _students, _grades, calls, pi>>

\* _generate_subjects
GenerateSubjects ==
    /\ pc = "subjects"
    /\ IF randint(cfg.subjects_range) = {}
       THEN /\ Raise("ValueError")
            /\ UNCHANGED <<seq, _subjects>>
       ELSE \E count \in randint(cfg.subjects_range) :
            IF count > Len(ACADEMIC_SUBJECTS)
            THEN /\ Raise("ValueError")
                 /\ UNCHANGED <<seq, _subjects>>
            ELSE IF count > 0 /\ _teachers = <<>>
            THEN /\ Raise("IndexError")
                 /\ UNCHANGED <<seq, _subjects>>
            ELSE \E selected_subjects \in sample(ACADEMIC_SUBJECTS, count),
                    teacher \in [1..count -> SeqToSet(_teachers)] :
                 LET rows == [i \in 1..count |->
                               [id |-> NoId, name |-> selected_subjects[i],
                                teacher_id |-> teacher[i].id]]
                 IN  FlushStep("subjects", rows, "students", _subjects')
    /\ UNCHANGED <<cfg, _groups, _teachers, _students, _grades, seen, calls, pi>>

\* _generate_students
GenerateStudents ==
    /\ pc = "students"
    /\ IF randint(cfg.students_range) = {}
       THEN /\ Raise("ValueError")
            /\ UNCHANGED <<seq, _students, seen>>
       ELSE \E count \in randint(cfg.students_range) :
            IF count > 0 /\ unique_emails(seen, 1) = {}
            THEN /\ Raise("UniquenessException")
                 /\ UNCHANGED <<seq, _students, seen>>
            ELSE IF count > 0 /\ _groups = <<>>
            THEN /\ \E e \in unique_emails(seen, 1) : seen' = seen \cup {e[1]}
                 /\ Raise("IndexError")
                 /\ UNCHANGED <<seq, _students>>
            ELSE IF unique_emails(seen, count) = {}
            THEN /\ Raise("UniquenessException")
                 /\ seen' = FakeEmails
                 /\ UNCHANGED <<seq, _students>>
            ELSE \E names \in [1..count -> FakeNames],
                    emails \in unique_emails(seen, count),
                    group \in [1..count -> SeqToSet(_groups)] :
                 LET rows == [i \in 1..count |->
                               [id |-> NoId, name |-> names[i], email |-> emails[i],
                                group_id |-> group[i].id]]
                 IN  /\ seen' = seen \cup SeqToSet(emails)
                     /\ FlushStep("students", rows, "grades", _students')
    /\ UNCHANGED <<cfg, _groups, _teachers, _subjects, _grades, calls, pi>>

\* _generate_grades: the grades the loop appends for the students from the
\* i-th on, one sequence per way the random draws can fall
RECURSIVE new_grades(_, _)
new_grades(i, counts) ==
    IF i > Len(_students) THEN {<<>>}
    ELSE LET student == _students[i]
             one == [id : {NoId}, student_id : {student.id},
                     subject_id : {s.id : s \in SeqToSet(_subjects)},
                     value : grade_value, created_at : {0 - d : d \in days_ago},
                     call : {calls}]
             mine == UNION {[1..n -> one] : n \in counts}
         IN  {m \o rest : m \in mine, rest \in new_grades(i + 1, counts)}

\* _generate_grades
GenerateGrades ==
    /\ pc = "grades"
    /\ IF _students # <<>> /\ randint(cfg.grades_range) = {}
       THEN /\ Raise("ValueError")
            /\ UNCHANGED _grades
       ELSE IF /\ _students # <<>>
               /\ _subjects = <<>>
               /\ \E n \in randint(cfg.grades_range) : n > 0
       THEN \* some draw of grades_count is positive and random.choice([]) raises;
            \* nothing was appended before it
            \/ /\ Raise("IndexError")
               /\ UNCHANGED _grades
            \/ /\ 0 \in randint(cfg.grades_range)
               /\ pc' = "commit"
               /\ UNCHANGED <<db, work, outcome, pre, steps, last, result, _grades>>
       ELSE \E g \in new_grades(1, randint(cfg.grades_range)) :
               /\ _grades' = _grades \o g
               /\ pc' = "commit"
               /\ UNCHANGED <<db, work, outcome, pre, steps, last, result>>
    /\ UNCHANGED <<seq, cfg, _groups, _teachers, _subjects, _students, seen, calls, pi>>

\* Grades of _grades left from an earlier populate() of this seeder
Stale(g) == g.call < calls

\* populate(): session.commit(), which flushes the pending grades
Commit ==
    /\ pc = "commit"
    /\ \E dbfail \in BOOLEAN :
        IF dbfail
        THEN /\ Raise("OperationalError")
             /\ UNCHANGED <<seq, _grades>>
        ELSE IF \E i \in 1..Len(_grades) : Stale(_grades[i]) /\ _grades[i].id = NoId
        THEN \* a grade expunged by an earlier rollback is pending again, and with
             \* it its student, subject, teacher and group of that earlier call:
             \* the group's name is taken by this call's group of the same index
             /\ Raise("UniqueViolation")
             /\ UNCHANGED <<seq, _grades>>
        ELSE LET idx == {i \in 1..Len(_grades) : ~ Stale(_grades[i])}
                 pending == [k \in 1..Cardinality(idx) |->
                               _grades[Len(_grades) - Cardinality(idx) + k]]
                 rows == [k \in 1..Len(pending) |->
                            [id |-> NoId, student_id |-> pending[k].student_id,
                             subject_id |-> pending[k].subject_id,
                             value |-> pending[k].value,
                             created_at |-> pending[k].created_at]]
                 f == Flush(work, seq.grades, "grades", rows, <<>>)
             IN  /\ seq' = [seq EXCEPT !.grades = f.seq]
                 /\ IF f.err # "none"
                    THEN /\ Raise(f.err)
                         /\ UNCHANGED _grades
                    ELSE /\ db' = f.st
                         /\ work' = f.st
                         /\ _grades' = [i \in 1..Len(_grades) |->
                                          IF i \in idx
                                          THEN [_grades[i] EXCEPT !.id =
                                                  f.rows[i - (Len(_grades) - Cardinality(idx))].id]
                                          ELSE _grades[i]]
                         /\ pc' = "idle"
                         /\ outcome' = "ok"
                         /\ UNCHANGED <<pre, steps, last, result>>
    /\ UNCHANGED <<cfg, _groups, _teachers, _subjects, _students, seen, calls, pi>>

----------------------------------------------------------------------------
(* Direct statements against the schema, each its own transaction *)

Ids(st, t) == {r.id : r \in st[t]}

\* A key of no row of the table
Dangling(t) == seq[t] + 1

GroupNames == {<<"Group", 1>>, <<"Group", 3>>}
PersonNames == {"Ann", "Bob"}
SubjectNames == {ACADEMIC_SUBJECTS[1], ACADEMIC_SUBJECTS[2]}
Emails == 1..2
Values == {0 - 1, 0, GradeHigh, GradeHigh + 1}

\* The rows an INSERT is tried with
Candidates(t) ==
    CASE t = "groups"   -> [id : {NoId}, name : GroupNames]
      [] t = "teachers" -> [id : {NoId}, name : PersonNames, email : Emails]
      [] t = "subjects" -> [id : {NoId}, name : SubjectNames,
                            teacher_id : Ids(db, "teachers") \cup {Dangling("teachers"), NULL}]
      [] t = "students" -> [id : {NoId}, name : PersonNames, email : Emails,
                            group_id : Ids(db, "groups") \cup {Dangling("groups"), NULL}]
      [] t = "grades"   -> [id : {NoId},
                            student_id : Ids(db, "students") \cup {Dangling("students")},
                            subject_id : Ids(db, "subjects") \cup {Dangling("subjects")},
                            value : Values, created_at : {0}]

\* INSERT INTO t: the row is stored, or the statement fails on a constraint
\* and its transaction is rolled back
Insert ==
    /\ pc = "idle"
    /\ steps < MaxSteps
    /\ \E t \in Tables : \E row \in Candidates(t) :
        LET f == Flush(db, seq[t], t, <<row>>, <<>>)
        IN  /\ seq' = [seq EXCEPT ![t] = f.seq]
            /\ db' = f.st
            /\ work' = f.st
            /\ outcome' = IF f.err = "none" THEN "ok" ELSE f.err
            /\ last' = <<"insert", t, row>>
    /\ pre' = db
    /\ steps' = steps + 1
    /\ UNCHANGED <<pc, pi, result>>
    /\ UNCHANGED seederVars

\* DELETE FROM t WHERE id = ..., with the cascades of the foreign keys
Delete ==
    /\ pc = "idle"
    /\ steps < MaxSteps
    /\ \E t \in Tables : \E row \in db[t] :
        /\ db' = DeleteFrom(db, t, {row})
        /\ work' = db'
        /\ last' = <<"delete", t, row>>
    /\ outcome' = "ok"
    /\ pre' = db
    /\ steps' = steps + 1
    /\ UNCHANGED <<seq, pc, pi, result>>
    /\ UNCHANGED seederVars

----------------------------------------------------------------------------
\* Storage left by earlier use: two groups, two teachers of one name, a
\* student without grades
ExistingDB ==
    [groups   |-> {[id |-> 1, name |-> <<"Group", 1>>], [id |-> 2, name |-> <<"Group", 2>>]},
     teachers |-> {[id |-> 1, name |-> "Ann", email |-> 1],
                   [id |-> 2, name |-> "Ann", email |-> 2]},
     subjects |-> {[id |-> 1, name |-> ACADEMIC_SUBJECTS[1], teacher_id |-> 1],
                   [id |-> 2, name |-> ACADEMIC_SUBJECTS[2], teacher_id |-> 2]},
     students |-> {[id |-> 1, name |-> "Ann", email |-> 3, group_id |-> 1],
                   [id |-> 2, name |-> "Bob", email |-> 4, group_id |-> 2],
                   [id |-> 3, name |-> "Bob", email |-> 5, group_id |-> 2]},
     grades   |-> {[id |-> 1, student_id |-> 1, subject_id |-> 1, value |-> 100, created_at |-> 0],
                   [id |-> 2, student_id |-> 2, subject_id |-> 1, value |-> 80, created_at |-> 0],
                   [id |-> 3, student_id |-> 2, subject_id |-> 2, value |-> 0, created_at |-> 0]}]

MaxId(S) == IF S = {} THEN 0 ELSE CHOOSE m \in S : \A x \in S : x <= m

Init ==
    /\ db \in {EmptyDB, ExistingDB}
    /\ work = db
    /\ seq = [t \in Tables |-> MaxId(Ids(db, t))]
    /\ cfg \in Configs
    /\ _groups = <<>>
    /\ _teachers = <<>>
    /\ _subjects = <<>>
    /\ _students = <<>>
    /\ _grades = <<>>
    /\ seen = {}
    /\ pc = "idle"
    /\ pi = 0
    /\ outcome = "none"
    /\ pre = db
    /\ calls = 0
    /\ steps = 0
    /\ last = <<"none">>
    /\ result = <<>>

Next ==
    \/ Construct
    \/ Populate
    \/ PurgeDelete
    \/ PurgeCommit
    \/ PurgeFail
    \/ GenerateGroups
    \/ GenerateTeachers
    \/ GenerateSubjects
    \/ GenerateStudents
    \/ GenerateGrades
    \/ Commit
    \/ Insert
    \/ Delete

Spec == Init /\ [][Next]_vars

----------------------------------------------------------------------------
(* Queries: my_select.py *)

\* What a scalar query returns for SQL NULL
None == NULL

RECURSIVE SumValues(_)
SumValues(G) ==
    IF G = {} THEN 0
    ELSE LET g == CHOOSE x \in G : TRUE IN g.value + SumValues(G \ {g})

\* func.round(func.avg(Grades.value), 2) over a non-empty set of grades, in
\* hundredths; numeric rounding is half away from zero and values are >= 0
round_avg(G) == (200 * SumValues(G) + Cardinality(G)) \div (2 * Cardinality(G))

\* Mutation: ascending order
LowerAvg(a, b) == a.sum * b.n < b.sum * a.n

\* avg over a > avg over b, exactly; a and b carry sum and count of their grades
HigherAvg(a, b) == a.sum * b.n > b.sum * a.n

\* ORDER BY desc(avg) LIMIT k over the grouped rows: every order the storage
\* may return, equal averages in any order
RECURSIVE order_by_desc_avg(_, _)
order_by_desc_avg(S, k) ==
    IF S = {} \/ k = 0 THEN {<<>>}
    ELSE UNION {{<<r>> \o rest : rest \in order_by_desc_avg(S \ {r}, k - 1)} :
                  r \in {x \in S : \A y \in S : ~ HigherAvg(y, x)}}

\* Students JOIN Grades GROUP BY student: one row per student with a grade
StudentsWithGrades(st, grades) ==
    {[student |-> s,
      sum |-> SumValues({g \in grades : g.student_id = s.id}),
      n |-> Cardinality({g \in grades : g.student_id = s.id}),
      avg_grade |-> round_avg({g \in grades : g.student_id = s.id})] :
        s \in {x \in st.students : \E g \in grades : g.student_id = x.id}}

\* select_1: the results the statement may return
select_1(st) ==
    LET row(r) == [student_id |-> r.student.id, student_name |-> r.student.name,
                   student_email |-> r.student.email, avg_grade |-> r.avg_grade]
    IN  {[i \in 1..Len(o) |-> row(o[i])] :
            o \in order_by_desc_avg(StudentsWithGrades(st, st.grades), TopLimit)}

\* Mutation: a falsy average returned as None
select_4_falsy(st) ==
    IF st.grades = {} \/ round_avg(st.grades) = 0 THEN None ELSE round_avg(st.grades)

\* select_4
select_4(st) == IF st.grades = {} THEN None ELSE round_avg(st.grades)

\* select_8
select_8(st, teacher_name) ==
    LET joined == {g \in st.grades :
                     \E s \in st.subjects, t \in st.teachers :
                        /\ s.id = g.subject_id
                        /\ s.teacher_id = t.id
                        /\ t.name = teacher_name}
    IN  IF joined = {} THEN None ELSE round_avg(joined)

\* The names queries are called with
QueryNames == {"Ann", "Bob", "Cy", "Zed"}

\* session.execute(stmt) of a query and its return: a SELECT, which writes
\* nothing
Query(call, res) ==
    /\ pc = "idle"
    /\ steps < MaxQueries
    /\ steps' = steps + 1
    /\ last' = call
    /\ result' = res
    /\ pre' = db
    /\ UNCHANGED <<db, work, seq, pc, pi, outcome>>
    /\ UNCHANGED seederVars

Select1 == \E r \in select_1(db) : Query(<<"select_1">>, r)

Select4 == Query(<<"select_4">>, select_4(db))

Select8 == \E name \in QueryNames : Query(<<"select_8", name>>, select_8(db, name))

\* Storage for the queries: two groups, three teachers of whom one teaches
\* nothing, two subjects, QStudents students, and per student one of the
\* grade lists of GradeLists (subject id, value)
GradeLists ==
    {<<>>, <<<<1, 0>>>>, <<<<1, 100>>>>, <<<<1, 0>>, <<2, 100>>>>}

RECURSIVE GradeRows(_, _, _)
GradeRows(lists, i, nextId) ==
    IF i > Len(lists) THEN {}
    ELSE {[id |-> nextId + k - 1, student_id |-> i, subject_id |-> lists[i][k][1],
           value |-> lists[i][k][2], created_at |-> 0] : k \in 1..Len(lists[i])}
         \cup GradeRows(lists, i + 1, nextId + Len(lists[i]))

QueryDB(lists) ==
    [groups   |-> {[id |-> 1, name |-> <<"Group", 1>>], [id |-> 2, name |-> <<"Group", 2>>]},
     teachers |-> {[id |-> 1, name |-> "Ann", email |-> 101],
                   [id |-> 2, name |-> "Bob", email |-> 102],
                   [id |-> 3, name |-> "Cy", email |-> 103]},
     subjects |-> {[id |-> 1, name |-> ACADEMIC_SUBJECTS[1], teacher_id |-> 1],
                   [id |-> 2, name |-> ACADEMIC_SUBJECTS[2], teacher_id |-> 2]},
     students |-> {[id |-> i, name |-> IF i % 2 = 1 THEN "Ann" ELSE "Bob", email |-> i,
                    group_id |-> 1 + (i % 2)] : i \in 1..Len(lists)},
     grades   |-> GradeRows(lists, 1, 1)]

InitQ ==
    /\ \E lists \in [1..QStudents -> GradeLists] : db = QueryDB(lists)
    /\ work = db
    /\ seq = [t \in Tables |-> MaxId(Ids(db, t))]
    /\ cfg = BaseConfig
    /\ _groups = <<>>
    /\ _teachers = <<>>
    /\ _subjects = <<>>
    /\ _students = <<>>
    /\ _grades = <<>>
    /\ seen = {}
    /\ pc = "idle"
    /\ pi = 0
    /\ outcome = "none"
    /\ pre = db
    /\ calls = 0
    /\ steps = 0
    /\ last = <<"none">>
    /\ result = <<>>

NextQ ==
    \/ Select1
    \/ Select4
    \/ Select8

SpecQ == InitQ /\ [][NextQ]_vars

----------------------------------------------------------------------------
(* Queries keyed by a name: my_select.py *)

\* The order the storage sorts these strings in
Collation ==
    <<"Ann", "Biology", "Bob", "Chemistry", "Computer Science", "Cy", "Economics",
      "Geography", "History", "Literature", "Mathematics", "Philosophy", "Physics",
      "Zed">>

collate(name) == CHOOSE i \in 1..Len(Collation) : Collation[i] = name

\* ORDER BY an integer key, ascending, over joined rows: every order the
\* storage may return, rows of equal key in any order
RECURSIVE order_by(_, _)
order_by(S, key) ==
    IF S = {} THEN {<<>>}
    ELSE UNION {{<<r>> \o rest : rest \in order_by(S \ {r}, key)} :
                  r \in {x \in S : \A y \in S : key[x] <= key[y]}}

\* GROUP BY owner over the grades G: one row per owner with a grade, of(g)
\* being the owner's key in the grade's joined row
Averaged(owners, G, of) ==
    {[owner |-> o,
      sum |-> SumValues({g \in G : of[g] = o.id}),
      n |-> Cardinality({g \in G : of[g] = o.id}),
      avg_grade |-> round_avg({g \in G : of[g] = o.id})] :
        o \in {x \in owners : \E g \in G : of[g] = x.id}}

\* Mutation: ORDER BY avg, ascending
by_asc_avg(R) == [r \in R |-> Cardinality({x \in R : HigherAvg(r, x)})]

\* ORDER BY desc(avg): the key is the number of rows of a higher average
by_desc_avg(R) == [r \in R |-> Cardinality({x \in R : HigherAvg(x, r)})]

\* Mutation: the join without its WHERE
GradesIn_any(st, subject_name) ==
    {g \in st.grades : \E s \in st.subjects : s.id = g.subject_id}

\* Grades JOIN Subjects WHERE Subjects.name = subject_name
GradesIn(st, subject_name) ==
    {g \in st.grades : \E s \in st.subjects : s.id = g.subject_id /\ s.name = subject_name}

\* Result.first() of no row: None in the place of a Row, which is a record
NoRow == [row |-> None]

\* select_2: the results the statement may return, a Row or None
select_2(st, subject_name) ==
    LET G == GradesIn(st, subject_name)
        R == Averaged(st.students, G, [g \in G |-> g.student_id])
        row(r) == [student_id |-> r.owner.id, student_name |-> r.owner.name,
                   student_email |-> r.owner.email, avg_grade |-> r.avg_grade]
    IN  IF R = {} THEN {NoRow}
        ELSE {row(o[1]) : o \in order_by(R, by_desc_avg(R))}

\* select_3
select_3(st, subject_name) ==
    LET G == {g \in GradesIn(st, subject_name) :
                \E s \in st.students : s.id = g.student_id /\
                    \E gr \in st.groups : gr.id = s.group_id}
        groupOf == [g \in G |->
                      (CHOOSE s \in st.students : s.id = g.student_id).group_id]
        R == Averaged(st.groups, G, groupOf)
        row(r) == [group_id |-> r.owner.id, group_name |-> r.owner.name,
                   avg_grade |-> r.avg_grade]
    IN  {[i \in 1..Len(o) |-> row(o[i])] : o \in order_by(R, by_desc_avg(R))}

\* The rows select_5, select_9 and select_10 return for a set of subjects
Courses(S) ==
    {[i \in 1..Len(o) |-> [subject_id |-> o[i].id, subject_name |-> o[i].name]] :
        o \in order_by(S, [x \in S |-> collate(x.name)])}

\* select_5
select_5(st, teacher_name) ==
    Courses({s \in st.subjects :
               \E t \in st.teachers : s.teacher_id = t.id /\ t.name = teacher_name})

\* select_6
select_6(st, group_name) ==
    LET S == {s \in st.students :
                \E g \in st.groups : s.group_id = g.id /\ g.name = group_name}
    IN  {[i \in 1..Len(o) |-> [student_id |-> o[i].id, student_name |-> o[i].name,
                               student_email |-> o[i].email]] :
            o \in order_by(S, [x \in S |-> collate(x.name)])}

\* random.randint(0, 365) of _generate_grades: created_at is within the last
\* MaxDaysAgo days
MaxDaysAgo == 365

\* select_7
select_7(st, group_name, subject_name) ==
    LET J == {[student |-> s, grade |-> g] : s \in st.students, g \in st.grades}
        W == {j \in J :
                /\ j.grade.student_id = j.student.id
                /\ j.grade \in GradesIn(st, subject_name)
                /\ \E g \in st.groups : j.student.group_id = g.id /\ g.name = group_name}
        \* ORDER BY Students.id, Grades.created_at as one key
        key == [j \in W |-> j.student.id * (MaxDaysAgo + 1)
                                + (MaxDaysAgo + j.grade.created_at)]
    IN  {[i \in 1..Len(o) |-> [student_id |-> o[i].student.id,
                               student_name |-> o[i].student.name,
                               grade_value |-> o[i].grade.value,
                               grade_date |-> o[i].grade.created_at]] :
            o \in order_by(W, key)}

\* Mutation: select_9 without its GROUP BY, one row per grade
select_9_per_grade(st, student_name) ==
    LET J == {[subject |-> s, grade |-> g] : s \in st.subjects, g \in st.grades}
        W == {j \in J :
                /\ j.grade.subject_id = j.subject.id
                /\ \E x \in st.students :
                      j.grade.student_id = x.id /\ x.name = student_name}
    IN  {[i \in 1..Len(o) |-> [subject_id |-> o[i].subject.id,
                               subject_name |-> o[i].subject.name]] :
            o \in order_by(W, [j \in W |-> collate(j.subject.name)])}

\* select_9
select_9(st, student_name) ==
    Courses({s \in st.subjects :
               \E g \in st.grades : g.subject_id = s.id /\
                   \E x \in st.students : g.student_id = x.id /\ x.name = student_name})

\* Mutation: select_10 without Teachers.name == teacher_name
select_10_any_teacher(st, student_name, teacher_name) ==
    Courses({s \in st.subjects :
               /\ \E g \in st.grades : g.subject_id = s.id /\
                     \E x \in st.students : g.student_id = x.id /\ x.name = student_name
               /\ \E t \in st.teachers : s.teacher_id = t.id})

\* select_10
select_10(st, student_name, teacher_name) ==
    Courses({s \in st.subjects :
               /\ \E g \in st.grades : g.subject_id = s.id /\
                     \E x \in st.students : g.student_id = x.id /\ x.name = student_name
               /\ \E t \in st.teachers : s.teacher_id = t.id /\ t.name = teacher_name})

\* The names the queries are called with: of rows and of no row
SubjectArgs == {ACADEMIC_SUBJECTS[1], ACADEMIC_SUBJECTS[2], ACADEMIC_SUBJECTS[3],
                ACADEMIC_SUBJECTS[4]}
GroupArgs == {<<"Group", 1>>, <<"Group", 2>>, <<"Group", 3>>}

Select2 == \E name \in SubjectArgs : \E r \in select_2(db, name) :
              Query(<<"select_2", name>>, r)

Select3 == \E name \in SubjectArgs : \E r \in select_3(db, name) :
              Query(<<"select_3", name>>, r)

Select5 == \E name \in QueryNames : \E r \in select_5(db, name) :
              Query(<<"select_5", name>>, r)

Select6 == \E name \in GroupArgs : \E r \in select_6(db, name) :
              Query(<<"select_6", name>>, r)

Select7 == \E group \in GroupArgs, subject \in SubjectArgs :
              \E r \in select_7(db, group, subject) :
                 Query(<<"select_7", group, subject>>, r)

Select9 == \E name \in QueryNames : \E r \in select_9(db, name) :
              Query(<<"select_9", name>>, r)

Select10 == \E student \in QueryNames, teacher \in QueryNames :
               \E r \in select_10(db, student, teacher) :
                  Query(<<"select_10", student, teacher>>, r)

\* Storage for the queries by name: two groups; teachers 1 and 2 of one
\* name, teacher 4 teaching nothing; three subjects whose ids are not in the
\* order of their names; NStudents students, the first and the third of one
\* name; per student one of the grade lists of NamedGradeLists (subject id,
\* value)
NStudents == 3

NamedGradeLists ==
    {<<>>,
     <<<<1, 100>>, <<1, 0>>>>,
     <<<<3, 50>>>>,
     <<<<1, 50>>, <<2, 100>>>>,
     <<<<1, 60>>, <<2, 0>>>>,
     <<<<2, 0>>, <<3, 100>>>>}

NamedDB(lists) ==
    [groups   |-> {[id |-> 1, name |-> <<"Group", 1>>], [id |-> 2, name |-> <<"Group", 2>>]},
     teachers |-> {[id |-> 1, name |-> "Ann", email |-> 101],
                   [id |-> 2, name |-> "Ann", email |-> 102],
                   [id |-> 3, name |-> "Bob", email |-> 103],
                   [id |-> 4, name |-> "Cy", email |-> 104]},
     subjects |-> {[id |-> 1, name |-> "Mathematics", teacher_id |-> 1],
                   [id |-> 2, name |-> "Physics", teacher_id |-> 2],
                   [id |-> 3, name |-> "Chemistry", teacher_id |-> 3]},
     students |-> {[id |-> i, name |-> IF i % 2 = 1 THEN "Ann" ELSE "Bob", email |-> i,
                    group_id |-> 1 + (i % 2)] : i \in 1..Len(lists)},
     grades   |-> GradeRows(lists, 1, 1)]

InitN ==
    /\ \E lists \in [1..NStudents -> NamedGradeLists] : db = NamedDB(lists)
    /\ work = db
    /\ seq = [t \in Tables |-> MaxId(Ids(db, t))]
    /\ cfg = BaseConfig
    /\ _groups = <<>>
    /\ _teachers = <<>>
    /\ _subjects = <<>>
    /\ _students = <<>>
    /\ _grades = <<>>
    /\ seen = {}
    /\ pc = "idle"
    /\ pi = 0
    /\ outcome = "none"
    /\ pre = db
    /\ calls = 0
    /\ steps = 0
    /\ last = <<"none">>
    /\ result = <<>>

NextN ==
    \/ Select1
    \/ Select2
    \/ Select3
    \/ Select4
    \/ Select5
    \/ Select6
    \/ Select7
    \/ Select8
    \/ Select9
    \/ Select10

SpecN == InitN /\ [][NextN]_vars

----------------------------------------------------------------------------
(* Properties of the seeder and the schema *)

\* populate() has returned or raised
Returned == pc = "idle" /\ last = <<"populate">>

Failed == Returned /\ outcome # "ok"

RangeFields == {"teachers_range", "subjects_range", "students_range", "grades_range"}

\* A range with min > max, or a subject count above the pool whatever is drawn
InvalidParameters(c) ==
    \/ \E f \in RangeFields : c[f][1] > c[f][2]
    \/ c.subjects_range[1] > PoolSize

Degenerate(c) == \A f \in RangeFields : c[f][1] = c[f][2]

GradesOf(st, student) == {g \in st.grades : g.student_id = student.id}

\* C1: seeding is all-or-nothing: when populate() fails at any step, the
\* committed storage is what it was when populate() was called.
C1_AllOrNothing == Failed => db = pre

\* The outcomes read as ConfigurationError: the code defines no such class;
\* random.randint and random.sample raise ValueError for an empty range and
\* for a count above the pool
ConfigurationError == {"ConfigurationError", "ValueError"}

\* C2: seeding with invalid parameters (a range with min > max, more subjects
\* than the pool holds) ends in ConfigurationError: in no other error kind and
\* not in success, unless the storage or the email generator failed first.
C2_ConfigurationError ==
    (Returned /\ InvalidParameters(cfg)
        /\ outcome \notin {"OperationalError", "UniquenessException"})
        => outcome \in ConfigurationError

\* C3: after every successful seeding run, whatever the storage held before,
\* every table's row count lies within that run's configuration: nothing of
\* earlier runs or earlier contents is left.
C3_NoAccumulation ==
    (Returned /\ outcome = "ok") =>
        /\ Cardinality(db.groups) = cfg.groups_count
        /\ Cardinality(db.teachers) \in randint(cfg.teachers_range)
        /\ Cardinality(db.subjects) \in randint(cfg.subjects_range)
        /\ Cardinality(db.students) \in randint(cfg.students_range)
        /\ \A s \in db.students :
              Cardinality(GradesOf(db, s)) \in randint(cfg.grades_range)
        /\ \A g \in db.grades : \E s \in db.students : g.student_id = s.id

\* A second run of the entry point, on storage an earlier run filled
C3_Witness ==
    /\ Returned /\ outcome = "ok"
    /\ steps = 2 /\ calls = 1
    /\ Cardinality(pre.teachers) = 1 /\ pre.grades # {}
    /\ db.grades # {}

\* C4: a successful run with degenerate ranges (min = max) stores exactly
\* G groups, T teachers, S subjects, N students and N*K grades, K per student.
C4_ExactCounts ==
    (Returned /\ outcome = "ok" /\ Degenerate(cfg)) =>
        /\ Cardinality(db.groups) = cfg.groups_count
        /\ Cardinality(db.teachers) = cfg.teachers_range[1]
        /\ Cardinality(db.subjects) = cfg.subjects_range[1]
        /\ Cardinality(db.students) = cfg.students_range[1]
        /\ Cardinality(db.grades) = cfg.students_range[1] * cfg.grades_range[1]
        /\ \A s \in db.students :
              Cardinality(GradesOf(db, s)) = cfg.grades_range[1]

C4_Witness ==
    /\ Returned /\ outcome = "ok" /\ Degenerate(cfg)
    /\ db.groups # {} /\ db.teachers # {} /\ db.subjects # {}
    /\ db.students # {} /\ db.grades # {}

\* C5: every stored grade's value is within [0,100]; an INSERT of a grade with
\* a value outside it fails on the check constraint and leaves storage as it
\* was; the seeder generates values within [1,100] only.
C5_GradeRange ==
    /\ \A g \in db.grades \cup work.grades : 0 <= g.value /\ g.value <= 100
    /\ (last[1] = "insert" /\ last[2] = "grades"
            /\ (last[3].value < 0 \/ last[3].value > 100))
        => (outcome = "CheckViolation" /\ db = pre)
    /\ \A i \in 1..Len(_grades) : 1 <= _grades[i].value /\ _grades[i].value <= 100

\* A grade of value 101 for an existing student and subject was refused
C5_Witness ==
    /\ last[1] = "insert" /\ last[2] = "grades"
    /\ last[3].value = 101
    /\ last[3].student_id \in Ids(db, "students")
    /\ last[3].subject_id \in Ids(db, "subjects")
    /\ outcome = "CheckViolation"

Unique(S, field) == \A a, b \in S : a[field] = b[field] => a = b

Distinct(q) == \A i, j \in 1..Len(q) : i # j => q[i] # q[j]

\* C6: no two rows of a table share a unique-constrained field (group name,
\* subject name, teacher email, student email); within a run the generated
\* group names are distinct, the subject names are distinct, and no email is
\* emitted twice across teachers and students together.
C6_Uniqueness ==
    /\ \A st \in {db, work} :
          /\ Unique(st.groups, "name") /\ Unique(st.subjects, "name")
          /\ Unique(st.teachers, "email") /\ Unique(st.students, "email")
          /\ \A t \in Tables : Unique(st[t], "id")
    /\ Distinct([i \in 1..Len(_groups) |-> _groups[i].name])
    /\ Distinct([i \in 1..Len(_subjects) |-> _subjects[i].name])
    /\ Distinct([i \in 1..Len(_teachers) |-> _teachers[i].email]
                    \o [i \in 1..Len(_students) |-> _students[i].email])

\* A run that drew two subjects
C6_Witness ==
    /\ Returned /\ outcome = "ok"
    /\ Len(_subjects) = 2 /\ Cardinality(db.subjects) = 2

\* C7: deleting a Group removes its Students and their Grades and nothing
\* else: other groups, students and grades, and all teachers and subjects
\* stay.
C7_GroupCascade ==
    (last[1] = "delete" /\ last[2] = "groups") =>
        LET gone == {s \in pre.students : s.group_id = last[3].id}
        IN  /\ db.groups = pre.groups \ {last[3]}
            /\ db.students = pre.students \ gone
            /\ db.grades = {g \in pre.grades : \A s \in gone : g.student_id # s.id}
            /\ db.teachers = pre.teachers
            /\ db.subjects = pre.subjects

\* A group with graded students was deleted beside another one that kept its own
C7_Witness ==
    /\ last[1] = "delete" /\ last[2] = "groups"
    /\ db.grades # pre.grades /\ db.grades # {}
    /\ db.students # {} /\ db.groups # {}

ReferentialIntegrity(st) ==
    /\ \A s \in st.subjects : \E t \in st.teachers : s.teacher_id = t.id
    /\ \A s \in st.students : \E g \in st.groups : s.group_id = g.id
    /\ \A g \in st.grades :
          /\ \E s \in st.students : g.student_id = s.id
          /\ \E s \in st.subjects : g.subject_id = s.id

\* The foreign keys of an inserted row that name no row of the parent table
DanglingKeys(st, t, row) ==
    CASE t = "subjects" -> {row.teacher_id} \ Ids(st, "teachers")
      [] t = "students" -> {row.group_id} \ Ids(st, "groups")
      [] t = "grades"   -> ({row.student_id} \ Ids(st, "students"))
                              \cup ({row.subject_id} \ Ids(st, "subjects"))
      [] OTHER -> {}

\* The error classes the session reports as IntegrityError
IntegrityError ==
    {"UniqueViolation", "CheckViolation", "ForeignKeyViolation", "NotNullViolation"}

\* C8: in every storage state, committed or inside a transaction, every
\* Subject's teacher, every Student's group and every Grade's student and
\* subject exist; an INSERT whose foreign key names no parent row fails with
\* an integrity error and stores nothing.
C8_ReferentialIntegrity ==
    /\ ReferentialIntegrity(db)
    /\ ReferentialIntegrity(work)
    /\ (last[1] = "insert" /\ DanglingKeys(pre, last[2], last[3]) # {})
        => (outcome \in IntegrityError /\ db = pre)

\* A grade naming no student was refused on its foreign key
C8_Witness ==
    /\ last[1] = "insert" /\ last[2] = "grades"
    /\ outcome = "ForeignKeyViolation"
    /\ db.grades # {}

\* The grades select_8 averages: those of the subjects of a teacher of that name
TaughtBy(st, name) ==
    {g \in st.grades :
        \E s \in st.subjects : s.id = g.subject_id /\
            \E t \in st.teachers : t.id = s.teacher_id /\ t.name = name}

\* C9: TopStudents returns at most 5 rows in non-increasing order of average;
\* each row's average is the mean of all grades of its student, who has at
\* least one; no student left out has a strictly higher average than one
\* returned.
C9_TopStudents ==
    last = <<"select_1">> =>
        LET Of(id) == {g \in db.grades : g.student_id = id}
            sum == [s \in Ids(db, "students") |-> SumValues(Of(s))]
            n == [s \in Ids(db, "students") |-> Cardinality(Of(s))]
            returned == {result[i].student_id : i \in 1..Len(result)}
        IN  /\ Len(result) <= 5
            /\ returned \subseteq Ids(db, "students")
            /\ Cardinality(returned) = Len(result)
            /\ \A i \in 1..Len(result) :
                  LET s == result[i].student_id
                      a == result[i].avg_grade
                  IN  /\ n[s] > 0
                      \* a is sum/n in hundredths, rounded to the nearest
                      /\ 2 * n[s] * a - n[s] <= 200 * sum[s]
                      /\ 200 * sum[s] < 2 * n[s] * a + n[s]
            /\ \A i, j \in 1..Len(result) :
                  i < j => result[i].avg_grade >= result[j].avg_grade
            /\ \A s \in returned, o \in Ids(db, "students") \ returned :
                  n[o] > 0 => sum[o] * n[s] <= sum[s] * n[o]

\* Five rows of differing averages returned, a graded student left out
C9_Witness ==
    /\ last = <<"select_1">>
    /\ Len(result) = 5
    /\ result[1].avg_grade > result[5].avg_grade
    /\ \E s \in db.students :
          /\ \E g \in db.grades : g.student_id = s.id
          /\ \A j \in 1..Len(result) : result[j].student_id # s.id

\* C10: OverallAverage and TeacherAverage return the empty optional exactly
\* when the grades they average are none; an average of exactly 0 is
\* returned as the value 0.
C10_ScalarAverages ==
    /\ last = <<"select_4">> =>
          /\ result = None <=> db.grades = {}
          /\ (db.grades # {} /\ \A g \in db.grades : g.value = 0) => result = 0
    /\ last[1] = "select_8" =>
          LET G == TaughtBy(db, last[2])
          IN  /\ result = None <=> G = {}
              /\ (G # {} /\ \A g \in G : g.value = 0) => result = 0

\* TeacherAverage over grades that are all 0, beside grades of other teachers
C10_Witness ==
    /\ last[1] = "select_8"
    /\ result = 0
    /\ TaughtBy(db, last[2]) # {}
    /\ db.grades # TaughtBy(db, last[2])

----------------------------------------------------------------------------
(* Properties of the queries keyed by a name *)

\* The grades of the students of a name
GradesOfNamed(st, name) ==
    {g \in st.grades : \E x \in st.students : x.id = g.student_id /\ x.name = name}

\* C11: StudentCourses returns each subject at most once, however many grades
\* in it, exactly the subjects in which a student of the name has a grade, in
\* alphabetical order of the subjects' names.
C11_StudentCourses ==
    last[1] = "select_9" =>
        LET taken == {g.subject_id : g \in GradesOfNamed(db, last[2])}
        IN  /\ {result[i].subject_id : i \in 1..Len(result)} = taken
            /\ Len(result) = Cardinality(taken)
            /\ \A i \in 1..Len(result) :
                  \E s \in db.subjects :
                     s.id = result[i].subject_id /\ s.name = result[i].subject_name
            /\ \A i, j \in 1..Len(result) :
                  i < j => collate(result[i].subject_name) < collate(result[j].subject_name)

\* Two subjects returned, not in the order of their ids, one of them holding
\* two grades of the name
C11_Witness ==
    /\ last[1] = "select_9"
    /\ Len(result) = 2
    /\ result[1].subject_id > result[2].subject_id
    /\ \E g, h \in GradesOfNamed(db, last[2]) : g # h /\ g.subject_id = h.subject_id

\* The rows of a table that a name matches
Named(st, t, name) == {r \in st[t] : r.name = name}

\* C12: a query by name called with a name of no row returns the empty
\* result, the empty list or None for select_2 and select_8, and no error.
C12_UnknownName ==
    /\ last[1] \in {"select_2", "select_3"} /\ Named(db, "subjects", last[2]) = {}
          => IF last[1] = "select_2" THEN result = NoRow ELSE result = <<>>
    /\ last[1] \in {"select_5", "select_8"} /\ Named(db, "teachers", last[2]) = {}
          => IF last[1] = "select_8" THEN result = None ELSE result = <<>>
    /\ last[1] = "select_6" /\ Named(db, "groups", last[2]) = {}
          => result = <<>>
    /\ last[1] = "select_7"
          /\ (Named(db, "groups", last[2]) = {} \/ Named(db, "subjects", last[3]) = {})
          => result = <<>>
    /\ last[1] = "select_9" /\ Named(db, "students", last[2]) = {}
          => result = <<>>
    /\ last[1] = "select_10"
          /\ (Named(db, "students", last[2]) = {} \/ Named(db, "teachers", last[3]) = {})
          => result = <<>>
    /\ last[1] \in {"select_2", "select_3", "select_5", "select_6", "select_7",
                    "select_8", "select_9", "select_10"} => outcome = "none"

\* BestInSubject was asked for a subject of no row while grades exist
C12_Witness ==
    /\ last[1] = "select_2"
    /\ Named(db, "subjects", last[2]) = {}
    /\ db.grades # {}
    /\ result = NoRow

QueryKinds ==
    {"select_1", "select_2", "select_3", "select_4", "select_5", "select_6",
     "select_7", "select_8", "select_9", "select_10"}

\* What a query may return when called as `call` on the storage st
Results(call, st) ==
    CASE call[1] = "select_1"  -> select_1(st)
      [] call[1] = "select_2"  -> select_2(st, call[2])
      [] call[1] = "select_3"  -> select_3(st, call[2])
      [] call[1] = "select_4"  -> {select_4(st)}
      [] call[1] = "select_5"  -> select_5(st, call[2])
      [] call[1] = "select_6"  -> select_6(st, call[2])
      [] call[1] = "select_7"  -> select_7(st, call[2], call[3])
      [] call[1] = "select_8"  -> {select_8(st, call[2])}
      [] call[1] = "select_9"  -> select_9(st, call[2])
      [] call[1] = "select_10" -> select_10(st, call[2], call[3])

\* Two results of one query hold the same rows: lists whatever their order,
\* a single row or a scalar as it is
SameRows(kind, r, q) ==
    IF kind \in {"select_2", "select_4", "select_8"} THEN r = q
    ELSE SeqToSet(r) = SeqToSet(q)

\* The query left the five tables as they were when it began
Untouched == db = pre /\ work = db

\* Whatever the query returns when repeated on this storage holds the rows
\* it has returned
Repeatable == \A r \in Results(last, db) : SameRows(last[1], r, result)

\* C13: each of the ten queries leaves the five tables as they were, and
\* repeated on the same storage returns the same set of rows.
C13_ReadOnly == last[1] \in QueryKinds => (Untouched /\ Repeatable)

\* C14: the subjects select_10(student_name, teacher_name) returns are those
\* select_5(teacher_name) returns that select_9(student_name) returns too,
\* each once.
C14_Intersection ==
    last[1] = "select_10" =>
        \A taught \in select_5(db, last[3]), taken \in select_9(db, last[2]) :
            /\ SeqToSet(result) = SeqToSet(taught) \cap SeqToSet(taken)
            /\ Len(result) = Cardinality(SeqToSet(result))

\* A subject returned, another only taught by the teachers of the name,
\* another only taken by the students of the name
C14_Witness ==
    /\ last[1] = "select_10"
    /\ result # <<>>
    /\ \E taught \in select_5(db, last[3]), taken \in select_9(db, last[2]) :
          /\ SeqToSet(taught) \ SeqToSet(taken) # {}
          /\ SeqToSet(taken) \ SeqToSet(taught) # {}

\* The teachers of the subjects in S, the students of the grades in G
TeachersOf(st, S) == {s.teacher_id : s \in {x \in st.subjects : x.id \in S}}

StudentsOf(G) == {g.student_id : g \in G}

AtMostOne(S) == Cardinality(S) <= 1

\* C15: the name a query is called with selects at most one Group, Subject,
\* Teacher or Student row, and what the query returns is of one teacher's
\* subjects and grades, or of one student's.
C15_UniqueNames ==
    /\ last[1] \in {"select_2", "select_3"} => AtMostOne(Named(db, "subjects", last[2]))
    /\ last[1] \in {"select_5", "select_8"} => AtMostOne(Named(db, "teachers", last[2]))
    /\ last[1] = "select_6" => AtMostOne(Named(db, "groups", last[2]))
    /\ last[1] = "select_7" =>
          /\ AtMostOne(Named(db, "groups", last[2]))
          /\ AtMostOne(Named(db, "subjects", last[3]))
    /\ last[1] = "select_9" => AtMostOne(Named(db, "students", last[2]))
    /\ last[1] = "select_10" =>
          /\ AtMostOne(Named(db, "students", last[2]))
          /\ AtMostOne(Named(db, "teachers", last[3]))
    /\ last[1] = "select_5" =>
          AtMostOne(TeachersOf(db, {result[i].subject_id : i \in 1..Len(result)}))
    /\ last[1] = "select_8" =>
          AtMostOne(TeachersOf(db, {g.subject_id : g \in TaughtBy(db, last[2])}))
    /\ last[1] = "select_9" => AtMostOne(StudentsOf(GradesOfNamed(db, last[2])))

\* C16: BestInSubject returns no row when the subject is unknown or has no
\* grades; otherwise one row, of a student with a grade in the subject whose
\* average over the grades in that subject, the other subjects not counted,
\* no other such student exceeds.
C16_BestInSubject ==
    last[1] = "select_2" =>
        LET ids == {s.id : s \in Named(db, "subjects", last[2])}
            G == {g \in db.grades : g.subject_id \in ids}
            Of(id) == {g \in G : g.student_id = id}
        IN  IF G = {} THEN result = NoRow
            ELSE /\ result # NoRow
                 /\ \E s \in db.students :
                       /\ s.id = result.student_id
                       /\ s.name = result.student_name
                       /\ s.email = result.student_email
                 /\ Of(result.student_id) # {}
                 /\ result.avg_grade = round_avg(Of(result.student_id))
                 /\ \A o \in StudentsOf(G) :
                       SumValues(Of(o)) * Cardinality(Of(result.student_id))
                          <= SumValues(Of(result.student_id)) * Cardinality(Of(o))

\* The student returned has a lower average over all subjects than another
\* student graded in the subject
C16_Witness ==
    /\ last[1] = "select_2"
    /\ result # NoRow
    /\ \E o \in db.students :
          /\ \E g \in GradesIn(db, last[2]) : g.student_id = o.id
          /\ LET mine == {g \in db.grades : g.student_id = result.student_id}
                 theirs == {g \in db.grades : g.student_id = o.id}
             IN  SumValues(theirs) * Cardinality(mine) > SumValues(mine) * Cardinality(theirs)

----------------------------------------------------------------------------
(* Properties of the order of populate()'s steps *)

\* The tables whose rows reference the rows of t
Children(t) ==
    CASE t = "groups"   -> {"students"}
      [] t = "teachers" -> {"subjects"}
      [] t = "subjects" -> {"grades"}
      [] t = "students" -> {"grades"}
      [] t = "grades"   -> {}

\* The parent rows a row of t names exist in st
ParentsIn(st, t, row) ==
    CASE t = "subjects" -> row.teacher_id \in Ids(st, "teachers")
      [] t = "students" -> row.group_id \in Ids(st, "groups")
      [] t = "grades"   -> /\ row.student_id \in Ids(st, "students")
                           /\ row.subject_id \in Ids(st, "subjects")
      [] OTHER -> TRUE

\* The table each position of populate() creates rows of
Creates ==
    [groups |-> "groups", teachers |-> "teachers", subjects |-> "subjects",
     students |-> "students", commit |-> "grades"]

\* A step inside populate() keeps the dependency order
InOrder ==
    \* the positions follow one another: purge, then the five generations
    /\ pc' # pc =>
          \/ pc' = "idle"
          \/ <<pc, pc'>> \in {<<"idle", "purge">>, <<"purge", "groups">>,
                              <<"groups", "teachers">>, <<"teachers", "subjects">>,
                              <<"subjects", "students">>, <<"students", "grades">>,
                              <<"grades", "commit">>}
    \* the purge deletes Grades, Students, Subjects, Teachers, Groups in this
    \* order, a table only when no table referencing it holds a row
    /\ (pc = "purge" /\ pc' = "purge") =>
          LET t == <<"grades", "students", "subjects", "teachers", "groups">>[pi']
          IN  /\ pi' = pi + 1
              /\ work'[t] = {}
              /\ \A c \in Children(t) : work[c] = {}
              /\ \A u \in Tables \ {t} : work'[u] = work[u]
    \* rows are created in their position only, their parents being there
    /\ pc \notin {"idle", "purge"} =>
          \A t \in Tables : \A row \in work'[t] \ work[t] :
              /\ pc \in DOMAIN Creates
              /\ Creates[pc] = t
              /\ ParentsIn(work, t, row)
    \* the grades generated are of students and subjects created before
    /\ pc = "grades" =>
          \A i \in (Len(_grades) + 1)..Len(_grades') :
              ParentsIn(work, "grades", _grades'[i])

\* C17: within one populate() the rows are deleted in the order Grades,
\* Students, Subjects, Teachers, Groups, no parent while a child referencing
\* it exists, and then created in the order Groups, Teachers, Subjects,
\* Students, Grades, no row before the rows it references.
C17_DependencyOrder == [][InOrder]_vars

\* On storage that held rows of every table, populate() has purged and
\* generated, and is to commit its grades
C17_Witness ==
    /\ pc = "commit"
    /\ \A t \in Tables : pre[t] # {}
    /\ work.students # {} /\ work.subjects # {}
    /\ \E i \in 1..Len(_grades) : ~ Stale(_grades[i])

\* C18: after a successful populate() of the seeder, however many calls it
\* has served, its list of generated grades holds grades of the students and
\* subjects of this call only, for each student a number within the grades
\* range, and these are the grades the storage holds.
C18_LatestGradesOnly ==
    (Returned /\ outcome = "ok" /\ calls > 0) =>
        LET of(student) == {i \in 1..Len(_grades) : _grades[i].student_id = student.id}
        IN  /\ \A i \in 1..Len(_grades) :
                  /\ \E s \in SeqToSet(_students) : s.id = _grades[i].student_id
                  /\ \E s \in SeqToSet(_subjects) : s.id = _grades[i].subject_id
            /\ \A j \in 1..Len(_students) :
                  Cardinality(of(_students[j])) \in randint(cfg.grades_range)
            /\ {_grades[i].id : i \in 1..Len(_grades)} = Ids(db, "grades")

====
